---------------------------- MODULE Spec2Model ----------------------------
(***************************************************************************)
(* State-machine model of configure_devices_nornir_napalm.py.              *)
(*                                                                         *)
(* Two ways into the code are modelled:                                    *)
(*   entry = "connect_to_device"  the module-level function (lines 422-464)*)
(*                                is called; it starts with the rendering  *)
(*                                step (Jinja2Environment);                *)
(*   entry = "classes"            a caller composes the three device-stage *)
(*                                classes itself, exactly as lines 446-464 *)
(*                                do, with a configuration file path of    *)
(*                                its own, and then calls the public       *)
(*                                methods of NapalmDeviceConnection.       *)
(* Every collaborator call (SSHDetect.autodetect, get_network_driver, the  *)
(* driver constructor, open, load_merge_candidate, commit_config,          *)
(* get_config, close) is one step; an exception ends the run, because the  *)
(* source has no try/except/finally anywhere.                              *)
(***************************************************************************)
EXTENDS Naturals, Sequences, FiniteSets, TLC

\* ------------------------------------------------------------- bounds
MaxDevices == 3
MaxCalls == 2

\* ------------------------------------------------------------- values
None == "<None>"

\* The fleet: an ordered address list, a prefix of these addresses.
Addresses == <<"10.0.0.1", "10.0.0.2", "10.0.0.3", "10.0.0.4", "10.0.0.5">>

Fleets == { SubSeq(Addresses, 1, n) : n \in 1..MaxDevices }

Passwords == {"cisco"}

\* secret: None, the empty string, or an explicit privileged-mode password.
Secrets == {None, "", "enable1"}

ConfigPaths == {"/intended_config/config.txt"}

\* What SSHDetect.autodetect() can return: a netmiko device_type or None.
ProbeResults == {"cisco_ios", "juniper_junos", "linux", "bogus_os", None}

\* netutils.lib_mapper.NETMIKO_LIB_MAPPER_REVERSE (an excerpt).
NETMIKO_LIB_MAPPER_REVERSE ==
    [k \in {"cisco_ios", "juniper_junos", "linux"} |-> k]

\* netutils.lib_mapper.NAPALM_LIB_MAPPER_REVERSE (an excerpt): "linux" has no
\* NAPALM driver, so the second table misses a value of the first.
NAPALM_LIB_MAPPER_REVERSE ==
    [k \in {"cisco_ios", "juniper_junos"} |->
        IF k = "cisco_ios" THEN "ios" ELSE "junos"]

Methods == {"send_config_file", "commit_config", "return_saved_configs"}

\* ------------------------------------------------------------- helpers
\* Python truthiness of a NoneOrStr.
Truthy(s) == s # None /\ s # ""

\* A variant of dict.get that hands back the key itself on a miss.
DictGet_key_on_miss(table, key, default) ==
    IF key \in DOMAIN table THEN table[key] ELSE key

\* dict.get(key, default)
DictGet(table, key, default) ==
    IF key \in DOMAIN table THEN table[key] ELSE default

\* dict.update(other) on a copy: keys of other win.
DictUpdate(d, other) == other @@ d

VARIABLES
    entry,          \* which way into the code this run takes
    pc,             \* the position of the single flow of control
    idx,            \* the index of the running for-loop
    failure,        \* the exception that ended the run, or "none"
    device_ips, password, secret, j2_inputs_valid,
    jinja_config_file_path,
    written,        \* the paths create_config_file has written, in order
    list_of_netmiko_device_params,
    netmiko_platforms,
    list_of_normalized_netmiko_platforms,
    napalm_netutils_drivers,
    napalm_drivers,
    list_of_napalm_device_params,
    list_of_device_connections,
    calls,          \* the public methods called on the NapalmDeviceConnection
    call_start,     \* the length of log when the running method was called
    probe_connections, \* the devices whose probe connection nothing released
    sess,           \* per device: the lifecycle state of its session
    transport,      \* per device: is the session's connection open
    log             \* every collaborator call made, in order

vars == <<entry, pc, idx, failure, device_ips, password, secret,
          j2_inputs_valid, jinja_config_file_path, written,
          list_of_netmiko_device_params, netmiko_platforms,
          list_of_normalized_netmiko_platforms, napalm_netutils_drivers,
          napalm_drivers, list_of_napalm_device_params,
          list_of_device_connections, calls, call_start,
          probe_connections, sess, transport, log>>

inputs == <<entry, device_ips, password, secret, j2_inputs_valid>>

N == Len(device_ips)

\* One collaborator call: the operation, the list position of the device, did
\* it succeed, its argument and what it returned.
Event(op, dev, ok, arg, ret) ==
    [op |-> op, dev |-> dev, ok |-> ok, arg |-> arg, ret |-> ret]


Abort(exc) ==
    /\ pc' = "aborted"
    /\ failure' = exc

\* ------------------------------------------------------------- rendering
\* Jinja2Environment.__init__ assigns these attributes of self, in this order.
J2InitOrder ==
    <<"template_dir", "template_name", "config_dir", "config_file", "j2_vars",
      "jinja_env", "j2_rendered_template", "directory">>

\* The attributes of self that the right-hand side of each assignment reads:
\* setup_jinja2_env reads template_dir and directory, render_jinja2_variables
\* reads jinja_env, template_name and j2_vars, find_current_dir reads none.
J2InitReads(attr) ==
    CASE attr = "jinja_env" -> {"template_dir", "directory"}
      [] attr = "j2_rendered_template" -> {"jinja_env", "template_name", "j2_vars"}
      [] OTHER -> {}

\* The outcome of constructing a Jinja2Environment: reading an attribute that
\* is not assigned yet raises AttributeError; otherwise the template engine
\* decides.
Jinja2Environment_init(valid) ==
    IF \E k \in DOMAIN J2InitOrder :
          ~ (J2InitReads(J2InitOrder[k]) \subseteq
                { J2InitOrder[j] : j \in 1..(k - 1) })
    THEN "AttributeError"
    ELSE IF valid THEN "ok" ELSE "TemplateNotFound"

\* create_config_file: the path the rendered text is written to.
create_config_file == CHOOSE p \in ConfigPaths : TRUE

\* connect_to_device, lines 438-444: Jinja2Environment(...).create_config_file()
RenderConfig ==
    /\ pc = "render"
    /\ LET r == Jinja2Environment_init(j2_inputs_valid) IN
         IF r = "ok"
         THEN /\ written' = Append(written, create_config_file)
              /\ jinja_config_file_path' = create_config_file
              /\ pc' = "detect_init"
              /\ UNCHANGED failure
         ELSE /\ Abort(r)
              /\ UNCHANGED <<written, jinja_config_file_path>>
    /\ UNCHANGED <<inputs, probe_connections, call_start,
                   idx, list_of_netmiko_device_params,
                   netmiko_platforms, list_of_normalized_netmiko_platforms,
                   napalm_netutils_drivers, napalm_drivers,
                   list_of_napalm_device_params, list_of_device_connections,
                   calls, sess, transport, log>>

\* ------------------------------------------------------------- detection
create_netmiko_device_params(ips, user, sec, pw) ==
    LET base_params == [host |-> None, username |-> user, password |-> pw,
                        secret |-> pw, device_type |-> "autodetect"]
        base == IF Truthy(sec)
                THEN DictUpdate(base_params, [secret |-> sec])
                ELSE base_params
    IN  [i \in 1..Len(ips) |-> DictUpdate(base, [host |-> ips[i]])]

Username == "admin"

\* NetmikoDriverGuesser.__init__
NetmikoDriverGuesser_init ==
    /\ pc = "detect_init"
    /\ list_of_netmiko_device_params' =
          create_netmiko_device_params(device_ips, Username, secret, password)
    /\ netmiko_platforms' = <<>>
    /\ idx' = 1
    /\ pc' = "detect"
    /\ UNCHANGED <<inputs, probe_connections, call_start,
                   failure, jinja_config_file_path, written,
                   list_of_normalized_netmiko_platforms,
                   napalm_netutils_drivers, napalm_drivers,
                   list_of_napalm_device_params, list_of_device_connections,
                   calls, sess, transport, log>>

\* A variant of get_netmiko_platform that appends no entry when the probe
\* returns None.
get_netmiko_platform_omit_none ==
    /\ pc = "detect"
    /\ LET device_param == list_of_netmiko_device_params[idx]
           last == idx = Len(list_of_netmiko_device_params)
       IN \E r \in ProbeResults :
            /\ netmiko_platforms' =
                  IF r = None THEN netmiko_platforms
                  ELSE Append(netmiko_platforms, r)
            /\ log' = Append(log, Event("autodetect", idx, TRUE,
                                        device_param.host, r))
            /\ sess' = [sess EXCEPT ![idx] = "Detected"]
            /\ probe_connections' = probe_connections \cup {idx}
            /\ idx' = idx + 1
            /\ pc' = IF last THEN "normalize" ELSE "detect"
            /\ UNCHANGED failure
    /\ UNCHANGED <<inputs, call_start,
                   jinja_config_file_path, written,
                   list_of_netmiko_device_params,
                   list_of_normalized_netmiko_platforms,
                   napalm_netutils_drivers, napalm_drivers,
                   list_of_napalm_device_params, list_of_device_connections,
                   calls, transport>>

\* One iteration of the loop of get_netmiko_platform: SSHDetect(...) connects
\* to the device (or raises), and autodetect() returns a platform or None,
\* which is appended, or raises.  Nothing disconnects the probe connection
\* (lines 245-247 keep no reference to the SSHDetect object): the code leaves
\* it open.
get_netmiko_platform ==
    /\ pc = "detect"
    /\ LET device_param == list_of_netmiko_device_params[idx]
           last == idx = Len(list_of_netmiko_device_params)
       IN
         IF DOMAIN device_param = {}
         THEN /\ idx' = idx + 1
              /\ pc' = IF last THEN "normalize" ELSE "detect"
              /\ UNCHANGED <<netmiko_platforms, sess, log, failure,
                             probe_connections>>
         ELSE \E r \in ProbeResults \cup {"raise"} :
                IF r = "raise"
                THEN /\ Abort("NetmikoException")
                     /\ \E connected \in BOOLEAN :
                          probe_connections' =
                              IF connected THEN probe_connections \cup {idx}
                              ELSE probe_connections
                     /\ log' = Append(log, Event("autodetect", idx, FALSE,
                                                 device_param.host, ""))
                     /\ sess' = [sess EXCEPT ![idx] = "Failed"]
                     /\ UNCHANGED <<idx, netmiko_platforms>>
                ELSE /\ netmiko_platforms' = Append(netmiko_platforms, r)
                     /\ log' = Append(log, Event("autodetect", idx, TRUE,
                                                 device_param.host, r))
                     /\ sess' = [sess EXCEPT ![idx] = "Detected"]
                     /\ probe_connections' = probe_connections \cup {idx}
                     /\ idx' = idx + 1
                     /\ pc' = IF last THEN "normalize" ELSE "detect"
                     /\ UNCHANGED failure
    /\ UNCHANGED <<inputs, call_start,
                   jinja_config_file_path, written,
                   list_of_netmiko_device_params,
                   list_of_normalized_netmiko_platforms,
                   napalm_netutils_drivers, napalm_drivers,
                   list_of_napalm_device_params, list_of_device_connections,
                   calls, transport>>


\* ------------------------------------------------------------- resolution
\* A variant of normalize_netmiko_platform that passes an unknown platform
\* through instead of defaulting to the empty string.
normalize_netmiko_platform_passthrough(platforms) ==
    [i \in 1..Len(platforms) |->
        DictGet(NETMIKO_LIB_MAPPER_REVERSE, platforms[i], platforms[i])]

\* normalize_netmiko_platform: one table lookup per detected platform.
normalize_netmiko_platform(platforms) ==
    [i \in 1..Len(platforms) |->
        DictGet(NETMIKO_LIB_MAPPER_REVERSE, platforms[i], "")]

\* NapalmDriverGuesser.__init__
NapalmDriverGuesser_init ==
    /\ pc = "normalize"
    /\ list_of_normalized_netmiko_platforms' =
          normalize_netmiko_platform(netmiko_platforms)
    /\ pc' = "map_names"
    /\ UNCHANGED <<inputs, probe_connections, call_start,
                   idx, failure, jinja_config_file_path, written,
                   list_of_netmiko_device_params, netmiko_platforms,
                   napalm_netutils_drivers, napalm_drivers,
                   list_of_napalm_device_params, list_of_device_connections,
                   calls, sess, transport, log>>

\* get_napalm_driver, lines 290-293: the canonical-to-driver-name lookups.
napalm_driver_names(normalized) ==
    [i \in 1..Len(normalized) |->
        DictGet(NAPALM_LIB_MAPPER_REVERSE, normalized[i], "")]

get_napalm_driver_names ==
    /\ pc = "map_names"
    /\ napalm_netutils_drivers' =
          napalm_driver_names(list_of_normalized_netmiko_platforms)
    /\ napalm_drivers' = <<>>
    /\ idx' = 1
    /\ pc' = IF Len(list_of_normalized_netmiko_platforms) = 0
             THEN "conn_init" ELSE "resolve"
    /\ UNCHANGED <<inputs, probe_connections, call_start,
                   failure, jinja_config_file_path, written,
                   list_of_netmiko_device_params, netmiko_platforms,
                   list_of_normalized_netmiko_platforms,
                   list_of_napalm_device_params, list_of_device_connections,
                   calls, sess, transport, log>>

\* napalm.get_network_driver(name): an empty name is refused at once; a
\* driver name may also fail to import.
get_network_driver(name) ==
    IF name = "" THEN {FALSE} ELSE BOOLEAN

\* One iteration of the loop of get_napalm_driver, lines 295-296.
get_napalm_driver ==
    /\ pc = "resolve"
    /\ LET driver == napalm_netutils_drivers[idx]
           last == idx = Len(napalm_netutils_drivers)
       IN \E ok \in get_network_driver(driver) :
            /\ log' = Append(log, Event("get_network_driver", idx, ok, driver,
                                   IF ok THEN driver ELSE ""))
            /\ IF ok
               THEN /\ napalm_drivers' = Append(napalm_drivers, driver)
                    /\ sess' = [sess EXCEPT ![idx] = "Resolved"]
                    /\ idx' = idx + 1
                    /\ pc' = IF last THEN "conn_init" ELSE "resolve"
                    /\ UNCHANGED failure
               ELSE /\ Abort("ModuleImportError")
                    /\ sess' = [sess EXCEPT ![idx] = "Failed"]
                    /\ UNCHANGED <<idx, napalm_drivers>>
    /\ UNCHANGED <<inputs, probe_connections, call_start,
                   jinja_config_file_path, written,
                   list_of_netmiko_device_params, netmiko_platforms,
                   list_of_normalized_netmiko_platforms,
                   napalm_netutils_drivers,
                   list_of_napalm_device_params, list_of_device_connections,
                   calls, transport>>

\* ------------------------------------------------------------- construction
\* A variant of create_napalm_device_params that puts the secret argument as
\* given into optional_args, without the default.
create_napalm_device_params_raw_secret(ips, user, sec, pw) ==
    [i \in 1..Len(ips) |->
        [hostname |-> ips[i], username |-> user, password |-> pw,
         optional_args |-> [secret |-> sec, inline_transfer |-> TRUE]]]

create_napalm_device_params(ips, user, sec, pw) ==
    LET base_params == [hostname |-> None, username |-> user, password |-> pw,
                        optional_args |->
                            [secret |-> pw, inline_transfer |-> TRUE]]
        base == IF Truthy(sec)
                THEN DictUpdate(base_params, [secret |-> sec])
                ELSE base_params
    IN  [i \in 1..Len(ips) |-> DictUpdate(base, [hostname |-> ips[i]])]

\* NapalmDeviceConnection.__init__, lines 325-333.
NapalmDeviceConnection_init ==
    /\ pc = "conn_init"
    /\ list_of_napalm_device_params' =
          create_napalm_device_params(device_ips, Username, secret, password)
    /\ list_of_device_connections' = <<>>
    /\ idx' = 1
    /\ pc' = IF Len(napalm_drivers) = 0 \/ Len(device_ips) = 0
             THEN "idle" ELSE "construct"
    /\ UNCHANGED <<inputs, probe_connections, call_start,
                   failure, jinja_config_file_path, written,
                   list_of_netmiko_device_params, netmiko_platforms,
                   list_of_normalized_netmiko_platforms,
                   napalm_netutils_drivers, napalm_drivers,
                   calls, sess, transport, log>>

\* list(zip(a, b)): as long as the shorter list.
Zip(a, b) ==
    [i \in 1..(IF Len(a) <= Len(b) THEN Len(a) ELSE Len(b)) |-> <<a[i], b[i]>>]

\* NetworkDriver.__init__(hostname, username, password, timeout=60,
\* optional_args=None): any other keyword is a TypeError.
NetworkDriver_init(params) ==
    /\ DOMAIN params \subseteq
          {"hostname", "username", "password", "timeout", "optional_args"}
    /\ {"hostname", "username", "password"} \subseteq DOMAIN params

\* One element of the comprehension of NapalmDeviceConnection.connect_to_device
\* (line 381): the driver type is called with the parameter set.
NapalmDeviceConnection_connect_to_device ==
    /\ pc = "construct"
    /\ LET driver_and_param == Zip(napalm_drivers, list_of_napalm_device_params)
           i == driver_and_param[idx]
           ok == NetworkDriver_init(i[2])
           last == idx = Len(driver_and_param)
       IN /\ log' = Append(log, Event("construct", idx, ok, i[2].hostname, ""))
          /\ IF ok
             THEN /\ list_of_device_connections' =
                        Append(list_of_device_connections,
                               [driver |-> i[1], hostname |-> i[2].hostname,
                                secret |-> i[2].optional_args.secret])
                  /\ idx' = idx + 1
                  /\ pc' = IF last THEN "idle" ELSE "construct"
                  /\ UNCHANGED <<failure, sess>>
             ELSE /\ Abort("TypeError")
                  /\ sess' = [sess EXCEPT ![idx] = "Failed"]
                  /\ UNCHANGED <<idx, list_of_device_connections>>
    /\ UNCHANGED <<inputs, probe_connections, call_start,
                   jinja_config_file_path, written,
                   list_of_netmiko_device_params, netmiko_platforms,
                   list_of_normalized_netmiko_platforms,
                   napalm_netutils_drivers, napalm_drivers,
                   list_of_napalm_device_params, calls, transport>>


\* ------------------------------------------------------------- the lifecycle
\* The public method that is running: the last one called.
method == calls[Len(calls)]

\* A variant of the public methods that are incremental: commit_config starts
\* at the commit loop and return_saved_configs at the readback loop.
CallMethod_incremental(m) ==
    /\ pc = "idle"
    /\ Len(calls) < MaxCalls
    /\ entry = "connect_to_device" =>
          (m = "return_saved_configs" /\ calls = <<>>)
    /\ calls' = Append(calls, m)
    /\ call_start' = Len(log)
    /\ idx' = 1
    /\ pc' = CASE m = "send_config_file" -> "open"
               [] m = "commit_config" -> "commit"
               [] OTHER -> "get_config"
    /\ UNCHANGED <<inputs, probe_connections,
                   failure, jinja_config_file_path, written,
                   list_of_netmiko_device_params, netmiko_platforms,
                   list_of_normalized_netmiko_platforms,
                   napalm_netutils_drivers, napalm_drivers,
                   list_of_napalm_device_params, list_of_device_connections,
                   sess, transport, log>>

\* The caller calls a public method of the NapalmDeviceConnection.  The
\* function connect_to_device calls return_saved_configs, once (line 464).
CallMethod(m) ==
    /\ pc = "idle"
    /\ Len(calls) < MaxCalls
    /\ entry = "connect_to_device" => (m = "return_saved_configs" /\ calls = <<>>)
    /\ calls' = Append(calls, m)
    /\ call_start' = Len(log)
    /\ idx' = 1
    /\ pc' = "open"
    /\ UNCHANGED <<inputs, probe_connections,
                   failure, jinja_config_file_path, written,
                   list_of_netmiko_device_params, netmiko_platforms,
                   list_of_normalized_netmiko_platforms,
                   napalm_netutils_drivers, napalm_drivers,
                   list_of_napalm_device_params, list_of_device_connections,
                   sess, transport, log>>

lifecycle_unchanged ==
    UNCHANGED <<inputs, probe_connections, call_start,
                jinja_config_file_path, written,
                list_of_netmiko_device_params, netmiko_platforms,
                list_of_normalized_netmiko_platforms,
                napalm_netutils_drivers, napalm_drivers,
                list_of_napalm_device_params, list_of_device_connections,
                calls>>

\* One collaborator call on the session at position idx fails: the exception
\* leaves every method and ends the run; nothing is released.
Raise(op, arg, exc) ==
    /\ log' = Append(log, Event(op, idx, FALSE, arg, ""))
    /\ sess' = [sess EXCEPT ![idx] = "Failed"]
    /\ Abort(exc)
    /\ UNCHANGED <<idx, transport>>

\* A variant of open that tries a failed open once more before giving up.
send_config_file_open_retry ==
    /\ pc = "open"
    /\ \E ok \in BOOLEAN :
         IF ok
         THEN /\ log' = Append(log, Event("open", idx, TRUE, "", ""))
              /\ sess' = [sess EXCEPT ![idx] = "Connected"]
              /\ transport' = [transport EXCEPT ![idx] = TRUE]
              /\ pc' = "load"
              /\ UNCHANGED <<idx, failure>>
         ELSE IF log # <<>> /\ log[Len(log)] = Event("open", idx, FALSE, "", "")
              THEN Raise("open", "", "ConnectionException")
              ELSE /\ log' = Append(log, Event("open", idx, FALSE, "", ""))
                   /\ UNCHANGED <<pc, idx, failure, sess, transport>>
    /\ lifecycle_unchanged

\* send_config_file, line 393: device_conn.open()
send_config_file_open ==
    /\ pc = "open"
    /\ \E ok \in BOOLEAN :
         IF ok
         THEN /\ log' = Append(log, Event("open", idx, TRUE, "", ""))
              /\ sess' = [sess EXCEPT ![idx] = "Connected"]
              /\ transport' = [transport EXCEPT ![idx] = TRUE]
              /\ pc' = "load"
              /\ UNCHANGED <<idx, failure>>
         ELSE Raise("open", "", "ConnectionException")
    /\ lifecycle_unchanged

\* A variant of load_merge_candidate's step that commits each device right
\* after staging it.
send_config_file_load_early_commit ==
    /\ pc = "load"
    /\ \E ok \in BOOLEAN :
         IF ok
         THEN /\ log' = Append(log, Event("load_merge_candidate", idx, TRUE,
                                          jinja_config_file_path, ""))
                        \o (IF method = "send_config_file" THEN <<>>
                            ELSE <<Event("commit_config", idx, TRUE, "", "")>>)
              /\ sess' = [sess EXCEPT ![idx] =
                            IF method = "send_config_file"
                            THEN "Staged" ELSE "Committed"]
              /\ IF idx < Len(list_of_device_connections)
                 THEN idx' = idx + 1 /\ pc' = "open"
                 ELSE /\ idx' = 1
                      /\ pc' = IF method = "send_config_file"
                               THEN "idle" ELSE "commit"
              /\ UNCHANGED <<transport, failure>>
         ELSE Raise("load_merge_candidate", jinja_config_file_path,
                    "MergeConfigException")
    /\ lifecycle_unchanged

\* A variant of load_merge_candidate's step that swallows a staging failure
\* and goes on with the next device.
send_config_file_load_swallow ==
    /\ pc = "load"
    /\ \E ok \in BOOLEAN :
         /\ log' = Append(log, Event("load_merge_candidate", idx, ok,
                                     jinja_config_file_path, ""))
         /\ sess' = [sess EXCEPT ![idx] = IF ok THEN "Staged" ELSE "Failed"]
         /\ IF idx < Len(list_of_device_connections)
            THEN idx' = idx + 1 /\ pc' = "open"
            ELSE /\ idx' = 1
                 /\ pc' = IF method = "send_config_file"
                          THEN "idle" ELSE "commit"
         /\ UNCHANGED <<transport, failure>>
    /\ lifecycle_unchanged

\* send_config_file, lines 394-396: device_conn.load_merge_candidate(filename=...)
\* and the end of the loop body; after the last device the method returns, into
\* commit_config (line 407) unless send_config_file is what the caller called.
send_config_file_load ==
    /\ pc = "load"
    /\ \E ok \in BOOLEAN :
         IF ok
         THEN /\ log' = Append(log, Event("load_merge_candidate", idx, TRUE,
                                          jinja_config_file_path, ""))
              /\ sess' = [sess EXCEPT ![idx] = "Staged"]
              /\ IF idx < Len(list_of_device_connections)
                 THEN idx' = idx + 1 /\ pc' = "open"
                 ELSE /\ idx' = 1
                      /\ pc' = IF method = "send_config_file"
                               THEN "idle" ELSE "commit"
              /\ UNCHANGED <<transport, failure>>
         ELSE Raise("load_merge_candidate", jinja_config_file_path,
                    "MergeConfigException")
    /\ lifecycle_unchanged

\* A variant of commit_config that, when a commit fails, rolls back the devices
\* committed before it.
commit_config_with_rollback ==
    /\ pc = "commit"
    /\ \E ok \in BOOLEAN :
         IF ok
         THEN /\ log' = Append(log, Event("commit_config", idx, TRUE, "", ""))
              /\ sess' = [sess EXCEPT ![idx] = "Committed"]
              /\ IF idx < Len(list_of_device_connections)
                 THEN idx' = idx + 1 /\ pc' = "commit"
                 ELSE /\ idx' = 1
                      /\ pc' = IF method = "commit_config"
                               THEN "idle" ELSE "get_config"
              /\ UNCHANGED <<transport, failure>>
         ELSE /\ log' = Append(log, Event("commit_config", idx, FALSE, "", ""))
                        \o [d \in 1..(idx - 1) |-> Event("rollback", d, TRUE, "", "")]
              /\ sess' = [d \in DOMAIN sess |->
                             IF d < idx THEN "Staged"
                             ELSE IF d = idx THEN "Failed" ELSE sess[d]]
              /\ Abort("CommitError")
              /\ UNCHANGED <<idx, transport>>
    /\ lifecycle_unchanged

\* A variant of commit_config that reads back right after each device's commit
\* (device by device) instead of committing the whole fleet first.
commit_config_per_device ==
    /\ pc = "commit"
    /\ \E ok \in BOOLEAN :
         IF ok
         THEN /\ log' = Append(log, Event("commit_config", idx, TRUE, "", ""))
              /\ sess' = [sess EXCEPT ![idx] = "Committed"]
              /\ IF method = "commit_config"
                 THEN IF idx < Len(list_of_device_connections)
                      THEN idx' = idx + 1 /\ pc' = "commit"
                      ELSE idx' = 1 /\ pc' = "idle"
                 ELSE idx' = idx /\ pc' = "get_config"
              /\ UNCHANGED <<transport, failure>>
         ELSE Raise("commit_config", "", "CommitError")
    /\ lifecycle_unchanged

\* commit_config, lines 408-409: conn.commit_config(); after the last device
\* the method returns, into return_saved_configs (line 414) unless
\* commit_config is what the caller called.
commit_config ==
    /\ pc = "commit"
    /\ \E ok \in BOOLEAN :
         IF ok
         THEN /\ log' = Append(log, Event("commit_config", idx, TRUE, "", ""))
              /\ sess' = [sess EXCEPT ![idx] = "Committed"]
              /\ IF idx < Len(list_of_device_connections)
                 THEN idx' = idx + 1 /\ pc' = "commit"
                 ELSE /\ idx' = 1
                      /\ pc' = IF method = "commit_config"
                               THEN "idle" ELSE "get_config"
              /\ UNCHANGED <<transport, failure>>
         ELSE Raise("commit_config", "", "CommitError")
    /\ lifecycle_unchanged

\* A variant of the readback step that reads every session back first and
\* closes only after the last readback.
return_saved_configs_get_config_all_first ==
    /\ pc = "get_config"
    /\ \E ok \in BOOLEAN :
         IF ok
         THEN /\ log' = Append(log, Event("get_config", idx, TRUE, "startup",
                                          "startup-config"))
              /\ sess' = [sess EXCEPT ![idx] = "Verified"]
              /\ IF idx < Len(list_of_device_connections)
                 THEN idx' = idx + 1 /\ pc' = "get_config"
                 ELSE idx' = idx /\ pc' = "close"
              /\ UNCHANGED <<transport, failure>>
         ELSE Raise("get_config", "startup", "ReadbackException")
    /\ lifecycle_unchanged

\* A variant of the readback step that closes the session first and reads the
\* configuration back afterwards.
return_saved_configs_get_config_after_close ==
    /\ pc = "get_config"
    /\ \E ok \in BOOLEAN :
         IF ok
         THEN /\ log' = log \o <<Event("close", idx, TRUE, "", ""),
                                 Event("get_config", idx, TRUE, "startup",
                                       "startup-config")>>
              /\ sess' = [sess EXCEPT ![idx] = "Verified"]
              /\ transport' = [transport EXCEPT ![idx] = FALSE]
              /\ IF idx < Len(list_of_device_connections)
                 THEN idx' = idx + 1 /\ pc' = "get_config"
                 ELSE idx' = 1 /\ pc' = "idle"
              /\ UNCHANGED failure
         ELSE Raise("get_config", "startup", "ReadbackException")
    /\ lifecycle_unchanged

\* return_saved_configs, line 416: conn.get_config().get("startup")
return_saved_configs_get_config ==
    /\ pc = "get_config"
    /\ \E ok \in BOOLEAN :
         IF ok
         THEN /\ log' = Append(log, Event("get_config", idx, TRUE, "startup",
                                          "startup-config"))
              /\ sess' = [sess EXCEPT ![idx] = "Verified"]
              /\ pc' = "close"
              /\ UNCHANGED <<idx, transport, failure>>
         ELSE Raise("get_config", "startup", "ReadbackException")
    /\ lifecycle_unchanged

\* return_saved_configs, line 418: conn.close(), and the end of the loop body.
return_saved_configs_close ==
    /\ pc = "close"
    /\ \E ok \in BOOLEAN :
         IF ok
         THEN /\ log' = Append(log, Event("close", idx, TRUE, "", ""))
              /\ sess' = [sess EXCEPT ![idx] = "Closed"]
              /\ transport' = [transport EXCEPT ![idx] = FALSE]
              /\ IF idx < Len(list_of_device_connections)
                 THEN idx' = idx + 1 /\ pc' = "get_config"
                 ELSE idx' = 1 /\ pc' = "idle"
              /\ UNCHANGED failure
         ELSE Raise("close", "", "ConnectionException")
    /\ lifecycle_unchanged

\* ------------------------------------------------------------- specification
Init ==
    /\ entry \in {"connect_to_device", "classes"}
    /\ device_ips \in Fleets
    /\ password \in Passwords
    /\ secret \in Secrets
    /\ j2_inputs_valid \in (IF entry = "connect_to_device" THEN BOOLEAN ELSE {TRUE})
    /\ pc = IF entry = "connect_to_device" THEN "render" ELSE "detect_init"
    /\ jinja_config_file_path \in
          (IF entry = "connect_to_device" THEN {None} ELSE ConfigPaths)
    /\ idx = 1
    /\ failure = "none"
    /\ written = <<>>
    /\ list_of_netmiko_device_params = <<>>
    /\ netmiko_platforms = <<>>
    /\ list_of_normalized_netmiko_platforms = <<>>
    /\ napalm_netutils_drivers = <<>>
    /\ napalm_drivers = <<>>
    /\ list_of_napalm_device_params = <<>>
    /\ list_of_device_connections = <<>>
    /\ calls = <<>>
    /\ call_start = 0
    /\ probe_connections = {}
    /\ sess = [i \in 1..Len(device_ips) |-> "Created"]
    /\ transport = [i \in 1..Len(device_ips) |-> FALSE]
    /\ log = <<>>

Next ==
    \/ RenderConfig
    \/ NetmikoDriverGuesser_init
    \/ get_netmiko_platform
    \/ NapalmDriverGuesser_init
    \/ get_napalm_driver_names
    \/ get_napalm_driver
    \/ NapalmDeviceConnection_init
    \/ NapalmDeviceConnection_connect_to_device
    \/ \E m \in Methods : CallMethod(m)
    \/ send_config_file_open
    \/ send_config_file_load
    \/ commit_config
    \/ return_saved_configs_get_config
    \/ return_saved_configs_close

Spec == Init /\ [][Next]_vars


\* ------------------------------------------------------------- properties
\* The composition the function connect_to_device makes (lines 446-464): the
\* three classes in order and return_saved_configs called once.
PipelineRun == calls = <<>> \/ calls = <<"return_saved_configs">>

OkEvents(op) == { k \in DOMAIN log : log[k].op = op /\ log[k].ok }

DetectionDone == Cardinality(OkEvents("autodetect")) = N

ResolutionDone == Cardinality(OkEvents("get_network_driver")) = N

ConstructionDone == Cardinality(OkEvents("construct")) = N

\* The operation of stage K is invoked on every device before the operation
\* of stage K+1 is invoked on any device.
Batched(opK, opK1) ==
    \A k \in DOMAIN log :
        log[k].op = opK1 =>
            \A d \in 1..N :
                \E j \in 1..(k - 1) : log[j].op = opK /\ log[j].dev = d

StageOps ==
    <<"autodetect", "get_network_driver", "open", "load_merge_candidate",
      "commit_config", "get_config">>

\* C1 as stated: in a run over a fleet of at least two devices the six stages
\* detect, resolve, connect (open), stage (load_merge_candidate), commit,
\* verify-and-close are batched: no device's stage-K+1 operation is invoked
\* before the stage-K operation was invoked on every device.
C1_StageBatched ==
    (PipelineRun /\ N >= 2) =>
        \A s \in 1..(Len(StageOps) - 1) : Batched(StageOps[s], StageOps[s + 1])

\* C1 amended: open and load_merge_candidate are one stage, run device by
\* device (load on a device directly follows the successful open on that
\* device); the stages detect, resolve, connect-and-stage, commit,
\* verify-and-close are batched.
C1_StageBatchedAmended ==
    (PipelineRun /\ N >= 2) =>
        /\ Batched("autodetect", "get_network_driver")
        /\ Batched("get_network_driver", "open")
        /\ Batched("load_merge_candidate", "commit_config")
        /\ Batched("commit_config", "get_config")
        /\ \A k \in DOMAIN log :
              log[k].op = "load_merge_candidate" =>
                  /\ k > 1
                  /\ log[k - 1].op = "open"
                  /\ log[k - 1].dev = log[k].dev
                  /\ log[k - 1].ok

\* A run over at least two devices that went through every stage.
C1_Witness ==
    /\ N >= 2
    /\ calls = <<"return_saved_configs">>
    /\ pc = "idle"
    /\ \A d \in 1..N : sess[d] = "Closed"

Unrecognized(r) == r \notin DOMAIN NETMIKO_LIB_MAPPER_REVERSE

SessionOps ==
    {"construct", "open", "load_merge_candidate", "commit_config",
     "get_config", "close"}

\* C2: when some device's probe result is unrecognized (or None), both lookups
\* yield the empty string for it, its driver is never resolved, and the run
\* never gets past resolution: no driver handle is constructed and no device
\* (in particular none at an earlier position) is opened, staged or committed.
C2_UnrecognizedAbortsBeforeConnect ==
    \A i \in DOMAIN netmiko_platforms :
        Unrecognized(netmiko_platforms[i]) =>
            /\ i \in DOMAIN list_of_normalized_netmiko_platforms =>
                  list_of_normalized_netmiko_platforms[i] = ""
            /\ i \in DOMAIN napalm_netutils_drivers =>
                  napalm_netutils_drivers[i] = ""
            /\ Len(napalm_drivers) < i
            /\ list_of_device_connections = <<>>
            /\ \A k \in DOMAIN log : log[k].op \notin SessionOps
            /\ \A d \in 1..N : sess[d] \in {"Created", "Detected", "Resolved", "Failed"}
            /\ \A d \in 1..N : ~ transport[d]
            /\ pc \in {"detect", "normalize", "map_names", "resolve", "aborted"}
            /\ (pc = "aborted" /\ DetectionDone) =>
                  /\ failure = "ModuleImportError"
                  /\ log[Len(log)].op = "get_network_driver"
                  /\ log[Len(log)].dev <= i

\* Scenario B: the second device's probe result is unrecognized, the first
\* device's driver was resolved, and resolution failed on the empty name.
C2_Witness ==
    /\ N >= 2
    /\ Len(netmiko_platforms) = N
    /\ ~ Unrecognized(netmiko_platforms[1])
    /\ Unrecognized(netmiko_platforms[2])
    /\ Len(napalm_drivers) = 1
    /\ pc = "aborted"
    /\ failure = "ModuleImportError"
    /\ log[Len(log)] = Event("get_network_driver", 2, FALSE, "", "")

\* C3: every parallel list that is produced has N entries aligned with the
\* address list: the probe parameters and the driver parameters carry address
\* i at position i, detected platform i is what the probe of address i
\* returned, there are N drivers, and session i is built from driver i and
\* address i.
C3_ParallelListsAligned ==
    /\ list_of_netmiko_device_params # <<>> =>
          /\ Len(list_of_netmiko_device_params) = N
          /\ \A i \in 1..N : list_of_netmiko_device_params[i].host = device_ips[i]
    /\ \A i \in DOMAIN netmiko_platforms :
          /\ i <= N
          /\ \E k \in OkEvents("autodetect") :
                /\ log[k].arg = device_ips[i]
                /\ log[k].ret = netmiko_platforms[i]
    /\ pc \in {"normalize", "map_names", "resolve", "conn_init", "construct",
               "idle", "open", "load", "commit", "get_config", "close"} =>
          Len(netmiko_platforms) = N
    /\ pc \in {"conn_init", "construct", "idle", "open", "load", "commit",
               "get_config", "close"} =>
          Len(napalm_drivers) = N
    /\ list_of_napalm_device_params # <<>> =>
          /\ Len(list_of_napalm_device_params) = N
          /\ \A i \in 1..N :
                list_of_napalm_device_params[i].hostname = device_ips[i]
    /\ pc \in {"idle", "open", "load", "commit", "get_config", "close"} =>
          Len(list_of_device_connections) = N
    /\ \A i \in DOMAIN list_of_device_connections :
          /\ list_of_device_connections[i].driver = napalm_drivers[i]
          /\ list_of_device_connections[i].hostname = device_ips[i]

\* All sessions of a fleet of at least two devices with different platforms
\* are built.
C3_Witness ==
    /\ N >= 2
    /\ pc = "idle"
    /\ Len(list_of_device_connections) = N
    /\ netmiko_platforms[1] # netmiko_platforms[2]


\* The run is over: an exception left it, or return_saved_configs returned.
RunEnded ==
    \/ pc = "aborted"
    \/ pc = "idle" /\ calls # <<>> /\ method = "return_saved_configs"

\* C4 as stated: when the run is over, on whatever path, no session that was
\* opened is left open.
C4_GuaranteedRelease ==
    RunEnded => \A d \in 1..N : ~ transport[d]

\* C5: when commit_config fails for the device at position i (in the first
\* method call on the connection object, after the whole fleet was staged),
\* that session is Failed, every device before i is and stays Committed,
\* nothing was issued after the failed commit (no rollback or discard), and
\* no device after i was committed.
C5_CommitFailureKeepsEarlierCommits ==
    (Len(calls) = 1 /\ pc = "aborted" /\ failure = "CommitError") =>
        LET i == log[Len(log)].dev IN
          /\ log[Len(log)].op = "commit_config"
          /\ ~ log[Len(log)].ok
          /\ Cardinality(OkEvents("load_merge_candidate")) = N
          /\ sess[i] = "Failed"
          /\ \A j \in 1..(i - 1) :
                /\ sess[j] = "Committed"
                /\ \E k \in OkEvents("commit_config") : log[k].dev = j
          /\ \A j \in (i + 1)..N :
                /\ sess[j] = "Staged"
                /\ \A k \in DOMAIN log :
                      ~ (log[k].op = "commit_config" /\ log[k].dev = j)

\* Scenario C: the commit on the second of at least three devices failed.
C5_Witness ==
    /\ N >= 3
    /\ calls = <<"return_saved_configs">>
    /\ pc = "aborted"
    /\ failure = "CommitError"
    /\ log[Len(log)].dev = 2
    /\ sess[1] = "Committed"

\* C6: a failed collaborator call is the last call of the run (nothing is
\* called after it, on any device, and it is not tried again), and in a run
\* of the pipeline every operation is invoked at most once per device.
C6_AbortOnFirstFailureNoRetry ==
    /\ \A k \in DOMAIN log :
          ~ log[k].ok => (k = Len(log) /\ pc = "aborted" /\ failure # "none")
    /\ pc = "aborted" => (log # <<>> => ~ log[Len(log)].ok)
    /\ PipelineRun =>
          \A k1, k2 \in DOMAIN log :
              (log[k1].op = log[k2].op /\ log[k1].dev = log[k2].dev) => k1 = k2

\* A staging failure on the second device after the first was staged.
C6_Witness ==
    /\ N >= 2
    /\ calls = <<"return_saved_configs">>
    /\ pc = "aborted"
    /\ failure = "MergeConfigException"
    /\ log[Len(log)].dev = 2
    /\ sess[1] = "Staged"

\* C7 as stated, for the function connect_to_device with valid rendering
\* inputs: once the rendering step is over the file has been written exactly
\* once, no probe or load happens without it, and every
\* load_merge_candidate receives the written path.
C7_WriteBeforeStage ==
    (entry = "connect_to_device" /\ j2_inputs_valid) =>
        /\ pc # "render" => Len(written) = 1
        /\ log # <<>> => Len(written) = 1
        /\ \A k \in DOMAIN log :
              log[k].op = "load_merge_candidate" =>
                  (written # <<>> /\ log[k].arg = written[1])

\* C8: with no secret supplied (None or the empty string) the secret of every
\* probe parameter set and the optional_args secret of every driver parameter
\* set equal the login password.
C8_SecretDefaulting ==
    ~ Truthy(secret) =>
        /\ \A i \in DOMAIN list_of_netmiko_device_params :
              list_of_netmiko_device_params[i].secret = password
        /\ \A i \in DOMAIN list_of_napalm_device_params :
              list_of_napalm_device_params[i].optional_args.secret = password

\* The empty-string secret, both parameter lists built for two devices or more.
C8_Witness ==
    /\ secret = ""
    /\ N >= 2
    /\ Len(list_of_netmiko_device_params) = N
    /\ Len(list_of_napalm_device_params) = N

Recognized(r) ==
    /\ r \in DOMAIN NETMIKO_LIB_MAPPER_REVERSE
    /\ NETMIKO_LIB_MAPPER_REVERSE[r] \in DOMAIN NAPALM_LIB_MAPPER_REVERSE

\* C9 as stated (its safety part): a run of the function connect_to_device
\* with valid rendering inputs, in which every probe result is recognized and
\* every collaborator call made has succeeded, is not aborted.
C9_SuccessPathCompletes ==
    ( /\ entry = "connect_to_device"
      /\ j2_inputs_valid
      /\ \A i \in DOMAIN netmiko_platforms : Recognized(netmiko_platforms[i])
      /\ \A k \in DOMAIN log : log[k].ok )
    => pc # "aborted"

\* C10: both lookups are total with default.  Once detection is complete the
\* normalized list and then the driver-name list are produced (no lookup ends
\* the run), each has as many entries as its input, and entry i is the table
\* value of input i for a known key and the empty string otherwise.
C10_LookupsTotalWithDefault ==
    /\ ( /\ pc \notin {"render", "detect_init", "detect", "normalize"}
         /\ pc = "aborted" => DetectionDone )
       => /\ Len(list_of_normalized_netmiko_platforms) = Len(netmiko_platforms)
          /\ \A i \in DOMAIN netmiko_platforms :
                list_of_normalized_netmiko_platforms[i] =
                    IF netmiko_platforms[i] \in DOMAIN NETMIKO_LIB_MAPPER_REVERSE
                    THEN NETMIKO_LIB_MAPPER_REVERSE[netmiko_platforms[i]]
                    ELSE ""
    /\ ( /\ pc \notin {"render", "detect_init", "detect", "normalize", "map_names"}
         /\ pc = "aborted" => DetectionDone )
       => /\ Len(napalm_netutils_drivers) = Len(netmiko_platforms)
          /\ \A i \in DOMAIN list_of_normalized_netmiko_platforms :
                napalm_netutils_drivers[i] =
                    IF list_of_normalized_netmiko_platforms[i]
                          \in DOMAIN NAPALM_LIB_MAPPER_REVERSE
                    THEN NAPALM_LIB_MAPPER_REVERSE[
                            list_of_normalized_netmiko_platforms[i]]
                    ELSE ""
    /\ (pc = "aborted" /\ DetectionDone) =>
          failure \in {"ModuleImportError", "TypeError", "ConnectionException",
                       "MergeConfigException", "CommitError", "ReadbackException"}

\* Both lookups ran over a None result, a platform only the first table
\* knows and a platform both tables know.
C10_Witness ==
    /\ pc = "resolve"
    /\ \E i, j, k \in DOMAIN netmiko_platforms :
          /\ netmiko_platforms[i] = None
          /\ netmiko_platforms[j] = "linux"
          /\ netmiko_platforms[k] = "cisco_ios"
          /\ napalm_netutils_drivers[i] = ""
          /\ list_of_normalized_netmiko_platforms[j] = "linux"
          /\ napalm_netutils_drivers[j] = ""
          /\ napalm_netutils_drivers[k] = "ios"


\* The collaborator calls made on the session at position d, in order.
RECURSIVE SessionOpsOf(_, _)
SessionOpsOf(d, n) ==
    IF n = 0 THEN <<>>
    ELSE IF log[n].dev = d /\ log[n].op \in SessionOps \ {"construct"}
         THEN Append(SessionOpsOf(d, n - 1), log[n])
         ELSE SessionOpsOf(d, n - 1)

Lifecycle ==
    <<"open", "load_merge_candidate", "commit_config", "get_config", "close">>

\* The operation that must have succeeded on a session right before op.
Predecessor(op) ==
    CASE op = "load_merge_candidate" -> "open"
      [] op = "commit_config" -> "load_merge_candidate"
      [] op = "get_config" -> "commit_config"
      [] op = "close" -> "get_config"

\* C11: on every session the operations come in the order open,
\* load_merge_candidate, commit_config, get_config, close with no step
\* skipped: each operation after open directly follows the success of its
\* predecessor on that session, nothing is invoked on a session after one of
\* its operations failed, and in a run of the pipeline the operations of a
\* session are a prefix of the five-step lifecycle.
C11_PerDeviceLifecycleOrder ==
    \A d \in 1..N :
        LET ops == SessionOpsOf(d, Len(log)) IN
          /\ \A k \in DOMAIN ops :
                /\ ~ ops[k].ok => k = Len(ops)
                /\ ops[k].op # "open" =>
                      /\ k > 1
                      /\ ops[k - 1].op = Predecessor(ops[k].op)
                      /\ ops[k - 1].ok
          /\ (\E k \in DOMAIN ops : ~ ops[k].ok) => sess[d] = "Failed"
          /\ PipelineRun =>
                /\ Len(ops) <= Len(Lifecycle)
                /\ \A k \in DOMAIN ops : ops[k].op = Lifecycle[k]

\* In a run of the pipeline the first session went through all five steps
\* and the second one failed at its readback.
C11_Witness ==
    /\ N >= 2
    /\ calls = <<"return_saved_configs">>
    /\ Len(SessionOpsOf(1, Len(log))) = 5
    /\ sess[1] = "Closed"
    /\ sess[2] = "Failed"
    /\ failure = "ReadbackException"

StageOf(op) ==
    CASE op = "autodetect" -> 1
      [] op = "get_network_driver" -> 2
      [] op = "open" -> 3
      [] op = "load_merge_candidate" -> 4
      [] op = "commit_config" -> 5
      [] op \in {"get_config", "close"} -> 6
      [] OTHER -> 0

\* The operation of stage s has succeeded on every device (in the running
\* method call, for the session stages).
StageCompleted(s) ==
    \A d \in 1..N :
        \E k \in DOMAIN log :
            /\ StageOf(log[k].op) = s
            /\ log[k].op # "close"
            /\ log[k].dev = d
            /\ log[k].ok
            /\ s >= 3 => k > call_start

\* C12 as stated: when the run is aborted by a failed stage-K operation, the
\* stages 1..K-1 have completed for every device, with the six stages detect,
\* resolve, open, load, commit, verify-and-close.
C12_FailureAtStageK ==
    (pc = "aborted" /\ log # <<>> /\ StageOf(log[Len(log)].op) > 0) =>
        \A s \in 1..(StageOf(log[Len(log)].op) - 1) : StageCompleted(s)

\* C12 amended: open and load_merge_candidate are one stage.  A failed open
\* or load_merge_candidate means detection and resolution completed for every
\* device (and open and load for every device before the failing one); a
\* failed commit_config means open and load completed for every device; a
\* failed get_config or close means commit_config completed for every device.
C12_FailureAtStageKAmended ==
    (pc = "aborted" /\ log # <<>> /\ StageOf(log[Len(log)].op) > 0) =>
        LET last == log[Len(log)]
            K == StageOf(last.op)
        IN  /\ \A s \in 1..(K - 1) :
                  (K \in {3, 4} /\ s \in {3, 4}) \/ StageCompleted(s)
            /\ K \in {3, 4} =>
                  \A d \in 1..(last.dev - 1) : \A s \in {3, 4} :
                      \E k \in (call_start + 1)..Len(log) :
                          /\ StageOf(log[k].op) = s
                          /\ log[k].dev = d
                          /\ log[k].ok

\* The staging of the second of at least three devices failed: the first
\* device is staged and the third one not even opened.
C12_Witness ==
    /\ N >= 3
    /\ pc = "aborted"
    /\ failure = "MergeConfigException"
    /\ log[Len(log)].dev = 2
    /\ sess[1] = "Staged"
    /\ sess[3] = "Resolved"
    /\ ~ transport[3]

NapalmKeys == {"hostname", "username", "password", "optional_args"}

\* C13 as stated: every driver parameter set has exactly the keys hostname,
\* username, password and optional_args; optional_args has inline_transfer
\* true and the supplied secret, or the password when none is supplied; and
\* the driver gets the same secret as the probe of the same device.
C13_DriverConstructionParams ==
    \A i \in DOMAIN list_of_napalm_device_params :
        LET p == list_of_napalm_device_params[i] IN
          /\ DOMAIN p = NapalmKeys
          /\ p.optional_args.inline_transfer = TRUE
          /\ p.optional_args.secret =
                (IF Truthy(secret) THEN secret ELSE password)
          /\ p.optional_args.secret = list_of_netmiko_device_params[i].secret


\* The calls made on the same session as call k, after it.
LaterOnSession(k) ==
    { j \in (k + 1)..Len(log) :
        log[j].dev = log[k].dev /\ log[j].op \in SessionOps \ {"construct"} }

\* C14 as stated: once close() was invoked on a session, no open,
\* load_merge_candidate, commit_config or get_config is invoked on it again,
\* whatever public methods are called afterwards.
C14_ClosedIsTerminal ==
    \A k \in DOMAIN log :
        log[k].op = "close" =>
            \A j \in LaterOnSession(k) :
                log[j].op \notin {"open", "load_merge_candidate",
                                  "commit_config", "get_config"}

\* C14 amended: Closed is terminal within one public method call, and so in
\* a run of the pipeline: nothing is invoked on a session after its close
\* until a later public method call opens it again (every later call on the
\* session is preceded by a new open); a session whose last operation is a
\* successful close is Closed, also when it is the second close.
C14_ClosedIsTerminalWithinCall ==
    /\ \A k \in DOMAIN log :
          log[k].op = "close" =>
              /\ k > call_start => LaterOnSession(k) = {}
              /\ PipelineRun => LaterOnSession(k) = {}
              /\ \A j \in LaterOnSession(k) :
                    \E m \in (k + 1)..j :
                        /\ log[m].op = "open"
                        /\ log[m].dev = log[k].dev
                        /\ log[m].ok \/ m = j
    /\ \A k \in DOMAIN log :
          (log[k].op = "close" /\ log[k].ok /\ LaterOnSession(k) = {}) =>
              /\ sess[log[k].dev] = "Closed"
              /\ ~ transport[log[k].dev]

\* return_saved_configs was called twice: the first session was closed,
\* opened again by the second call and closed a second time.
C14_Witness ==
    /\ calls = <<"return_saved_configs", "return_saved_configs">>
    /\ pc = "idle"
    /\ \E k, j, m \in DOMAIN log :
          /\ k < j /\ j < m
          /\ log[k].op = "close" /\ log[k].dev = 1
          /\ log[j].op = "open" /\ log[j].dev = 1
          /\ log[m].op = "close" /\ log[m].dev = 1
    /\ sess[1] = "Closed"

\* C15 as stated: when a probe returned None, no entry was appended for that
\* device, so after detection the detected-platform list is shorter than the
\* fleet.
C15_ProbeNoResultOmitted ==
    ( /\ pc \notin {"render", "detect_init", "detect"}
      /\ DetectionDone
      /\ \E k \in OkEvents("autodetect") : log[k].ret = None )
    => Len(netmiko_platforms) < N

\* C15 amended: a probe result of None is appended like any other result, so
\* the detected-platform list has one entry per probed device, at the
\* device's position; a None entry then fails resolution, and the pairing of
\* drivers with parameter sets only ever runs on two lists of N entries.
C15_ProbeNoResultRecorded ==
    /\ Len(netmiko_platforms) = Cardinality(OkEvents("autodetect"))
    /\ \A k \in OkEvents("autodetect") :
          /\ log[k].dev \in DOMAIN netmiko_platforms
          /\ netmiko_platforms[log[k].dev] = log[k].ret
    /\ (\E i \in DOMAIN netmiko_platforms : netmiko_platforms[i] = None) =>
          /\ pc \in {"detect", "normalize", "map_names", "resolve", "aborted"}
          /\ list_of_napalm_device_params = <<>>
          /\ list_of_device_connections = <<>>
    /\ pc = "construct" =>
          /\ Len(napalm_drivers) = N
          /\ Len(list_of_napalm_device_params) = N

\* Detection of two devices or more ended with a None result at the second
\* position, recorded there, and resolution failed on it.
C15_Witness ==
    /\ N >= 2
    /\ Len(netmiko_platforms) = N
    /\ netmiko_platforms[1] = "cisco_ios"
    /\ netmiko_platforms[2] = None
    /\ pc = "aborted"
    /\ failure = "ModuleImportError"
    /\ log[Len(log)].dev = 2

\* C16 as stated: once detection is over (the run proceeds to resolution, or
\* has ended) no probe connection is still open.
C16_ProbeConnectionsReleased ==
    pc \notin {"render", "detect_init", "detect"} => probe_connections = {}


\* The calls of the running public method.
InCall == (call_start + 1)..Len(log)

\* C17: in the first return_saved_configs on a connection object the
\* readbacks come in address-list order, session i is read back and then
\* closed before session i+1 is read back, and a failed readback on session
\* i leaves the sessions before i closed and the sessions from i on still
\* open and not closed, those after i committed and not read back.
C17_ReadbackOrder ==
    calls = <<"return_saved_configs">> =>
        /\ \A k \in DOMAIN log :
              log[k].op = "get_config" =>
                  /\ \A d \in 1..(log[k].dev - 1) :
                        \E j \in 1..(k - 1) :
                            log[j].op = "get_config" /\ log[j].dev = d
                  /\ log[k].dev > 1 =>
                        log[k - 1] = Event("close", log[k].dev - 1, TRUE, "", "")
        /\ \A k \in DOMAIN log :
              log[k].op = "close" =>
                  /\ log[k - 1].op = "get_config"
                  /\ log[k - 1].dev = log[k].dev
                  /\ log[k - 1].ok
        /\ (pc = "aborted" /\ failure = "ReadbackException") =>
              LET i == log[Len(log)].dev IN
                /\ log[Len(log)].op = "get_config"
                /\ \A d \in 1..(i - 1) : sess[d] = "Closed" /\ ~ transport[d]
                /\ sess[i] = "Failed" /\ transport[i]
                /\ \A d \in (i + 1)..N :
                      /\ sess[d] = "Committed"
                      /\ transport[d]
                      /\ \A k \in DOMAIN log :
                            log[k].dev = d =>
                                log[k].op \notin {"get_config", "close"}

\* The readback of the second of at least three sessions failed.
C17_Witness ==
    /\ N >= 3
    /\ calls = <<"return_saved_configs">>
    /\ pc = "aborted"
    /\ failure = "ReadbackException"
    /\ log[Len(log)].dev = 2
    /\ sess[1] = "Closed"
    /\ sess[3] = "Committed"

OkInCall(op, d) ==
    \E j \in InCall : log[j].op = op /\ log[j].dev = d /\ log[j].ok

\* C18: within one call of a public method, commit_config is invoked on no
\* device before open and load_merge_candidate succeeded on every device,
\* and get_config on no device before commit_config succeeded on every
\* device; so a call that a staging (or open) failure ends has committed no
\* device, and when it is the first call no device is committed at all.
C18_CommitBarrier ==
    /\ \A k \in InCall :
          /\ log[k].op = "commit_config" =>
                \A d \in 1..N :
                    /\ \E j \in (call_start + 1)..(k - 1) :
                          log[j].op = "open" /\ log[j].dev = d /\ log[j].ok
                    /\ \E j \in (call_start + 1)..(k - 1) :
                          /\ log[j].op = "load_merge_candidate"
                          /\ log[j].dev = d
                          /\ log[j].ok
          /\ log[k].op = "get_config" =>
                \A d \in 1..N :
                    \E j \in (call_start + 1)..(k - 1) :
                        log[j].op = "commit_config" /\ log[j].dev = d /\ log[j].ok
    /\ ( /\ pc = "aborted"
         /\ calls # <<>>
         /\ log[Len(log)].op \in {"open", "load_merge_candidate"} )
       => /\ \A k \in InCall : log[k].op # "commit_config"
          /\ Len(calls) = 1 => \A d \in 1..N : sess[d] # "Committed"

\* A commit_config call over at least two devices that the staging of the
\* last device ended.
C18_Witness ==
    /\ N >= 2
    /\ calls = <<"commit_config">>
    /\ pc = "aborted"
    /\ failure = "MergeConfigException"
    /\ log[Len(log)].dev = N
    /\ sess[1] = "Staged"

Count(op, d) ==
    Cardinality({ k \in DOMAIN log : log[k].op = op /\ log[k].dev = d })

CallsOf(ms) == Cardinality({ c \in DOMAIN calls : calls[c] \in ms })

\* C19: after any sequence of successful public method calls, each session
\* was opened and staged once per call, committed once per call of
\* commit_config or return_saved_configs, and read back and closed once per
\* call of return_saved_configs.
C19_CumulativeMethods ==
    (pc = "idle" /\ failure = "none") =>
        \A d \in 1..N :
            /\ Count("open", d) = Len(calls)
            /\ Count("load_merge_candidate", d) = Len(calls)
            /\ Count("commit_config", d) =
                  CallsOf({"commit_config", "return_saved_configs"})
            /\ Count("get_config", d) = CallsOf({"return_saved_configs"})
            /\ Count("close", d) = CallsOf({"return_saved_configs"})

\* commit_config and then return_saved_configs returned: every session was
\* opened, staged and committed twice and read back and closed once.
C19_Witness ==
    /\ calls = <<"commit_config", "return_saved_configs">>
    /\ pc = "idle"
    /\ failure = "none"
    /\ N >= 2
    /\ Count("open", 2) = 2
    /\ Count("close", 2) = 1

=============================================================================
